---- MODULE Spec2Model ----
(***************************************************************************)
(* A model of the ctx command-line tool: target fingerprinting, file       *)
(* metadata and content loading, frontmatter detection and extraction,     *)
(* markdown document assembly and the dispatch loop of main().             *)
(*                                                                         *)
(* Text is modelled as a sequence of one-character strings, so that the    *)
(* regular expressions of the program are evaluated character by           *)
(* character.  Option<T> is modelled as a sequence of length 0 (None) or   *)
(* 1 (Some).  Result<T,E> is a record with the field ok.                   *)
(***************************************************************************)
EXTENDS Integers, Sequences, FiniteSets, TLC

VARIABLES
    fpInput,    \* SpecFp: the string handed to fingerprint()
    fpTarget,   \* SpecFp: Option<Target> returned by fingerprint()
    raw,        \* SpecFm: the raw markdown text under test
    fmOut,      \* SpecFm: outcome of the frontmatter operation applied to raw
    fs,         \* Spec: the file system, path -> node
    os,         \* Spec: which timestamps the platform's stat provides
    args,       \* Spec: Cli.targets, the target strings of the command line
    pc,         \* Spec: position of main()
    fingerprints, \* Spec: Vec<Target> built by main()
    results,    \* Spec: Vec<Result<Value>> built by the map of process_known_fingerprints
    outcomes,   \* Spec: Option<Vec<Value>>, the value process_known_fingerprints returns
    warned,     \* Spec: number of targets warn_about_unknown_fingerprints has visited
    log,        \* Spec: the lines written to stderr and stdout, in order
    cur,        \* Spec: the value md_file holds between its steps
    ioPath,     \* SpecIo: the path handed to FileMeta::try_from
    ioMeta,     \* SpecIo: Option<Result<FileMeta, IoError>> it returned
    ioFile      \* SpecIo: Option<Result<FileWithMeta, IoError>> load_content returned

fpVars == <<fpInput, fpTarget>>
fmVars == <<raw, fmOut>>
mainVars == <<fs, os, args, pc, fingerprints, results, outcomes, warned, log, cur>>
ioVars == <<ioPath, ioMeta, ioFile>>
vars == <<fpInput, fpTarget, raw, fmOut, fs, os, args, pc, fingerprints, results,
          outcomes, warned, log, cur, ioPath, ioMeta, ioFile>>

(***************************************************************************)
(* Bounds                                                                  *)
(***************************************************************************)
MaxInputLen == 6
MaxLines == 4
MaxTargets == 3

None == <<>>
Some(x) == <<x>>
IsSome(o) == Len(o) = 1

\* F applied to the value of x: x is evaluated once and F sees the value
With(x, F(_)) == CHOOSE r \in { F(v) : v \in {x} } : TRUE

\* All sequences over alphabet A of length at most n.
StringsUpTo(A, n) == UNION { [1..k -> A] : k \in 0..n }

EndsWith(s, suffix) ==
    /\ Len(s) >= Len(suffix)
    /\ SubSeq(s, Len(s) - Len(suffix) + 1, Len(s)) = suffix

StartsWith(s, prefix) ==
    /\ Len(s) >= Len(prefix)
    /\ SubSeq(s, 1, Len(prefix)) = prefix

\* s[i..] starts with lit (i is 1-based; lit may run up to the end of s)
LitAt(s, i, lit) ==
    /\ i >= 1
    /\ i + Len(lit) - 1 <= Len(s)
    /\ SubSeq(s, i, i + Len(lit) - 1) = lit

(***************************************************************************)
(* Fingerprinter  (main.rs)                                                *)
(***************************************************************************)
\* The characters the model draws target strings from.
FpAlphabet == {".", "m", "d", "h", "t", "l"}

\* regex class \w restricted to the model's characters: letters, digits, "_"
Letters ==
    { "a", "b", "c", "d", "e", "f", "g", "h", "i", "j", "k", "l", "m", "n", "o", "p", "q", "r", "s", "t", "u", "v", "w", "x", "y", "z", "A" }
Digits == {"0", "1", "2", "3", "4", "5", "6", "7", "8", "9"}
WordChars == Letters \cup Digits \cup {"_"}
IsWord(c) == c \in WordChars

\* (variant of ReMd without the leading \w, used to test the classification
\* property)
ReMdNoWord(s) == \E i \in 1..Len(s) : LitAt(s, i, <<".", "m", "d">>) /\ i + 2 = Len(s)

\* Regex::new(r"\w\.md$").is_match(s): an unanchored search for a word
\* character followed by ".md" and the end of the text.
ReMd(s) ==
    \E i \in 1..Len(s) :
        /\ IsWord(s[i])
        /\ LitAt(s, i + 1, <<".", "m", "d">>)
        /\ i + 3 = Len(s)

\* Regex::new(r"\w\.htm(l){0,1}$").is_match(s)
ReHtml(s) ==
    \E i \in 1..Len(s) :
        /\ IsWord(s[i])
        /\ LitAt(s, i + 1, <<".", "h", "t", "m">>)
        /\ \/ i + 4 = Len(s)
           \/ LitAt(s, i + 5, <<"l">>) /\ i + 5 = Len(s)

\* The MATCHERS table, in declaration order.
MATCHERS ==
    << [kind |-> "MarkdownFile", re |-> "md"],
       [kind |-> "HtmlFile",     re |-> "html"] >>

MatcherIsMatch(m, s) == IF m.re = "md" THEN ReMd(s) ELSE ReHtml(s)

\* fingerprint(): MATCHERS.iter().find(is_match), Unknown when none matches.
fingerprint(input) ==
    LET hits == { k \in 1..Len(MATCHERS) : MatcherIsMatch(MATCHERS[k], input) }
    IN  IF hits = {}
        THEN [kind |-> "Unknown", user_input |-> input]
        ELSE LET first == CHOOSE k \in hits : \A j \in hits : k <= j
             IN  [kind |-> MATCHERS[first].kind, user_input |-> input]

(***************************************************************************)
(* Text helpers                                                            *)
(***************************************************************************)
NL == "\n"

\* index of the first newline of s at or after position i, 0 when there is none
FirstNewlineFrom(s, i) ==
    LET hits == { k \in i..Len(s) : s[k] = NL }
    IN  IF hits = {} THEN 0 ELSE CHOOSE k \in hits : \A j \in hits : k <= j

\* str::lines(): split at newlines, a final line ending is optional
LinesOf[s \in Seq(STRING)] ==
    IF s = <<>> THEN <<>>
    ELSE With(FirstNewlineFrom(s, 1), LAMBDA nl :
            IF nl = 0 THEN <<s>>
            ELSE <<SubSeq(s, 1, nl - 1)>> \o LinesOf[SubSeq(s, nl + 1, Len(s))])
Lines(s) == LinesOf[s]

IsSpace(c) == c \in {" ", NL}

\* str::trim_start / trim_end / trim
TrimStart(s) ==
    LET keep == { k \in 1..Len(s) : ~IsSpace(s[k]) }
    IN  IF keep = {} THEN <<>>
        ELSE SubSeq(s, CHOOSE k \in keep : \A j \in keep : k <= j, Len(s))

TrimEnd(s) ==
    LET keep == { k \in 1..Len(s) : ~IsSpace(s[k]) }
    IN  IF keep = {} THEN <<>>
        ELSE SubSeq(s, 1, CHOOSE k \in keep : \A j \in keep : j <= k)

Trim(s) == With(TrimStart(s), LAMBDA t : TrimEnd(t))

\* the lines joined, each preceded by a newline (format!("\n{line}"))
JoinWithLeadingNewlineOf[ls \in Seq(Seq(STRING))] ==
    IF ls = <<>> THEN <<>>
    ELSE <<NL>> \o Head(ls) \o JoinWithLeadingNewlineOf[Tail(ls)]
JoinWithLeadingNewline(ls) == JoinWithLeadingNewlineOf[ls]

Dashes == <<"-", "-", "-">>

(***************************************************************************)
(* Frontmatter detection and removal  (md/markdown.rs)                     *)
(***************************************************************************)
\* HAS_FM = ^---\n.?*\n--- with multi_line(false): "." does not match a
\* newline, so the text between the two delimiters is a single line; the
\* pattern is anchored at the start of the text only.
HAS_FM(s) ==
    /\ LitAt(s, 1, Dashes \o <<NL>>)
    /\ \E j \in 5..Len(s) :
          /\ s[j] = NL
          /\ \A k \in 5..(j - 1) : s[k] # NL
          /\ LitAt(s, j + 1, Dashes)

has_frontmatter(content) == HAS_FM(content)

\* MD_PARTS = ^---.*---(.*) replaced by "$1" (Regex::replace, first match).
\* "." does not match a newline, so the whole match lies in the first line:
\* the line starts with ---, the greedy .* runs to the last later --- of the
\* line, and group 1 is the rest of the line.  No match: the text unchanged.
MD_PARTS_replace(s) ==
    LET nl   == FirstNewlineFrom(s, 1)
        eol  == IF nl = 0 THEN Len(s) + 1 ELSE nl
        line == SubSeq(s, 1, eol - 1)
        ps   == { p \in 4..Len(line) : LitAt(line, p, Dashes) }
    IN  IF StartsWith(line, Dashes) /\ ps # {}
        THEN LET p == CHOOSE q \in ps : \A r \in ps : r <= q
             IN  SubSeq(line, p + 3, Len(line)) \o SubSeq(s, eol, Len(s))
        ELSE s

exclude_frontmatter(content) ==
    IF has_frontmatter(content) THEN MD_PARTS_replace(content) ELSE content

(***************************************************************************)
(* Frontmatter decoding  (md/frontmatter.rs)                               *)
(***************************************************************************)
\* serde field name of each recognized key (rename_all = "camelCase")
KeyName ==
    (<<"t", "i", "t", "l", "e">> :> "title") @@
    (<<"d", "e", "s", "c", "r", "i", "p", "t", "i", "o", "n">> :> "description") @@
    (<<"s", "u", "b", "j", "e", "c", "t">> :> "subject") @@
    (<<"c", "a", "t", "e", "g", "o", "r", "y">> :> "category") @@
    (<<"n", "a", "m", "e">> :> "name") @@
    (<<"e", "x", "c", "e", "r", "p", "t">> :> "excerpt") @@
    (<<"i", "m", "a", "g", "e">> :> "image") @@
    (<<"i", "c", "o", "n">> :> "icon") @@
    (<<"l", "a", "y", "o", "u", "t">> :> "layout") @@
    (<<"a", "l", "i", "a", "s", "e", "s">> :> "aliases") @@
    (<<"t", "a", "g", "s">> :> "tags") @@
    (<<"r", "e", "q", "u", "i", "r", "e", "s", "A", "u", "t", "h">> :> "requires_auth")

RecognizedKeys == DOMAIN KeyName
StringFields == {"title", "description", "subject", "category", "name",
                 "excerpt", "image", "icon", "layout"}
VecFields == {"aliases", "tags"}
BoolFields == {"requires_auth"}

\* A YAML scalar or flow sequence written on one line, as a JSON value
\* [t, v]; t = "error" when the text is not valid YAML.
YamlValue(text) ==
    IF text = <<>> THEN [t |-> "null", v |-> <<>>]
    ELSE IF text \in {<<"t", "r", "u", "e">>, <<"f", "a", "l", "s", "e">>}
    THEN [t |-> "bool", v |-> text]
    ELSE IF \A k \in 1..Len(text) : text[k] \in Digits
    THEN [t |-> "number", v |-> text]
    ELSE IF Head(text) = "["
    THEN IF text[Len(text)] = "]" /\ Len(text) >= 2
         THEN [t |-> "array", v |-> SubSeq(text, 2, Len(text) - 1)]
         ELSE [t |-> "error", v |-> text]
    ELSE [t |-> "string", v |-> text]

\* position of the ":" that makes the line a block-mapping entry, 0 if none
EntryColon(line) ==
    LET ps == { p \in 2..Len(line) :
                  /\ line[p] = ":"
                  /\ \A k \in 1..(p - 1) : IsWord(line[k])
                  /\ (p = Len(line) \/ line[p + 1] = " ") }
    IN  IF ps = {} THEN 0 ELSE CHOOSE p \in ps : \A q \in ps : p <= q

EntryKey(line) == SubSeq(line, 1, EntryColon(line) - 1)
EntryValue(line) == YamlValue(Trim(SubSeq(line, EntryColon(line) + 1, Len(line))))

\* YAML::parse of gray_matter on the text between the delimiters: the first
\* document as a Pod, Pod::Null when the text does not load as YAML.  A block
\* of key: value lines is a mapping, a single line is a scalar or a flow
\* sequence, several plain lines fold into one string, anything else fails.
YamlParseLines(ls, matter) ==
    LET n == Len(ls)
    IN  IF n = 0 THEN [t |-> "null", v |-> <<>>]
        ELSE IF \A k \in 1..n : EntryColon(ls[k]) # 0
        THEN IF \E k \in 1..n : EntryValue(ls[k]).t = "error"
             THEN [t |-> "null", v |-> <<>>]
             ELSE LET keys == { EntryKey(ls[k]) : k \in 1..n }
                      last(key) == CHOOSE k \in 1..n :
                                      /\ EntryKey(ls[k]) = key
                                      /\ \A j \in 1..n : EntryKey(ls[j]) = key => j <= k
                  IN  [t |-> "object", v |-> [key \in keys |-> EntryValue(ls[last(key)])]]
        ELSE IF n = 1
        THEN With(YamlValue(Trim(ls[1])), LAMBDA y :
                IF y.t = "error" THEN [t |-> "null", v |-> <<>>] ELSE y)
        ELSE IF \A k \in 1..n : EntryColon(ls[k]) = 0 /\ Head(Trim(ls[k])) # "["
        THEN [t |-> "string", v |-> matter]
        ELSE [t |-> "null", v |-> <<>>]

YamlParse(matter) ==
    With(SelectSeq(Lines(matter), LAMBDA l : Trim(l) # <<>>),
         LAMBDA ls : YamlParseLines(ls, matter))

\* Matter::<YAML>::parse(input).data : Option<Pod>.  The first line must be
\* the delimiter; the matter is everything up to the next line that is the
\* delimiter; data stays None when the matter is empty or never closed.
MatterOfLines(ls, input) ==
    LET closes == { k \in 2..Len(ls) : TrimEnd(ls[k]) = Dashes }
    IN  IF Len(input) <= Len(Dashes) \/ FirstNewlineFrom(input, 1) = 0
           \/ TrimEnd(ls[1]) # Dashes \/ closes = {}
        THEN None
        ELSE LET c == CHOOSE k \in closes : \A j \in closes : k <= j
             IN  With(Trim(JoinWithLeadingNewline(SubSeq(ls, 2, c - 1))),
                      LAMBDA matter :
                          IF matter = <<>> THEN None ELSE Some(YamlParse(matter)))

MatterData(input) == With(Lines(input), LAMBDA ls : MatterOfLines(ls, input))

\* whether JSON value val deserializes into the recognized field named f
FieldTypeOk(f, val) ==
    \/ val.t = "null"
    \/ f \in StringFields /\ val.t = "string"
    \/ f \in BoolFields /\ val.t = "bool"
    \/ f \in VecFields /\ val.t = "array" /\ YamlValue(val.v).t \in {"string", "null"}

DefaultFrontmatter ==
    [ title |-> None, aliases |-> None, tags |-> None, description |-> None,
      subject |-> None, category |-> None, name |-> None, excerpt |-> None,
      image |-> None, icon |-> None, layout |-> None, requires_auth |-> None,
      other |-> <<>> ]

\* Frontmatter::new(json: Option<Value>) -> Result<Frontmatter, MarkdownError>
TypedField(obj, f) ==
    LET ks == { k \in DOMAIN obj : k \in RecognizedKeys /\ KeyName[k] = f }
    IN  IF ks = {} THEN None
        ELSE LET k == CHOOSE x \in ks : TRUE
             IN  IF obj[k].t = "null" THEN None ELSE Some(obj[k].v)

FrontmatterFromObject(obj) ==
    [ title |-> TypedField(obj, "title"),
      aliases |-> TypedField(obj, "aliases"),
      tags |-> TypedField(obj, "tags"),
      description |-> TypedField(obj, "description"),
      subject |-> TypedField(obj, "subject"),
      category |-> TypedField(obj, "category"),
      name |-> TypedField(obj, "name"),
      excerpt |-> TypedField(obj, "excerpt"),
      image |-> TypedField(obj, "image"),
      icon |-> TypedField(obj, "icon"),
      layout |-> TypedField(obj, "layout"),
      requires_auth |-> TypedField(obj, "requires_auth"),
      other |-> [k \in (DOMAIN obj) \ RecognizedKeys |-> obj[k]] ]

FrontmatterNew(json) ==
    IF json = None THEN [ok |-> TRUE, fm |-> Some(DefaultFrontmatter), err |-> "none"]
    ELSE With(json[1], LAMBDA val :
            IF val.t # "object"
            THEN [ok |-> FALSE, fm |-> None, err |-> "FrontmatterDecodeError"]
            ELSE IF \E k \in DOMAIN val.v :
                       k \in RecognizedKeys /\ ~FieldTypeOk(KeyName[k], val.v[k])
            THEN [ok |-> FALSE, fm |-> None, err |-> "FrontmatterDecodeError"]
            ELSE [ok |-> TRUE, err |-> "none",
                  fm |-> Some(FrontmatterFromObject(val.v))])

\* impl TryFrom<String> for Frontmatter:
\*   Frontmatter::new(matter.parse(&value).data.unwrap().deserialize().unwrap())?
\* status is "ok", "err" (the Err value is returned) or "panic" (unwrap on
\* None).  deserialize::<Option<Value>>() maps Pod::Null to None.
FrontmatterTryFrom(value) ==
    With(MatterData(value), LAMBDA data :
        IF data = None
        THEN [status |-> "panic", fm |-> None, err |-> "unwrap on None"]
        ELSE With(FrontmatterNew(IF data[1].t = "null" THEN None ELSE data),
                  LAMBDA r :
                      IF r.ok THEN [status |-> "ok", fm |-> r.fm, err |-> "none"]
                      ELSE [status |-> "err", fm |-> None, err |-> r.err]))

\* symbolic digest: xxh3_64 of the bytes of content
hash(content) == [xxh3_64 |-> content]

\* Prose::from(String)
ProseFrom(content) == [content |-> content, hash |-> hash(content)]

\* split_fm_from_prose(raw_content) -> Result<(Prose, Option<Frontmatter>), _>
split_fm_from_prose(raw_content) ==
    IF has_frontmatter(raw_content)
    THEN With(FrontmatterTryFrom(raw_content), LAMBDA r :
            IF r.status = "ok"
            THEN [status |-> "ok", err |-> "none", frontmatter |-> r.fm,
                  prose |-> Some(ProseFrom(exclude_frontmatter(raw_content)))]
            ELSE [status |-> r.status, err |-> r.err, frontmatter |-> None,
                  prose |-> None])
    ELSE [status |-> "ok", err |-> "none", frontmatter |-> None,
          prose |-> Some(ProseFrom(exclude_frontmatter(raw_content)))]

(***************************************************************************)
(* File system and FileLoader  (file/mod.rs)                               *)
(***************************************************************************)
\* A node: link = the path itself is a symbolic link; type = what the path
\* resolves to ("none": nothing, "dir", "file"); utf8 = the file's bytes
\* read as UTF-8 text; content = that text.
Absent == [link |-> FALSE, type |-> "none", utf8 |-> FALSE, content |-> <<>>]
Directory == [link |-> FALSE, type |-> "dir", utf8 |-> FALSE, content |-> <<>>]
BinaryFile == [link |-> FALSE, type |-> "file", utf8 |-> FALSE, content |-> <<>>]
RegularFile(c) == [link |-> FALSE, type |-> "file", utf8 |-> TRUE, content |-> c]
SymlinkToFile(c) == [link |-> TRUE, type |-> "file", utf8 |-> TRUE, content |-> c]

NodeAt(fsys, path) == IF path \in DOMAIN fsys THEN fsys[path] ELSE Absent

\* std::fs::metadata(path): stat, which follows symbolic links, so the file
\* type it reports is the type of what the path resolves to.
StdMetadata(fsys, path) ==
    LET n == NodeAt(fsys, path)
    IN  IF n.type = "none" THEN [ok |-> FALSE, file_type |-> "none"]
        ELSE [ok |-> TRUE, file_type |-> n.type]

\* Metadata::is_file / Metadata::is_symlink: tests of the reported file type
MetaIsFile(meta) == meta.file_type = "file"
MetaIsSymlink(meta) == meta.file_type = "symlink"

\* FileMeta::try_from without the is_file test of line 52: every path that
\* can be stat'ed is accepted
FileMetaTryFromAnyType(fsys, platform, value) ==
    LET meta == StdMetadata(fsys, value)
    IN  IF meta.ok
        THEN [ok |-> TRUE, err |-> "none", path |-> value,
              meta |-> Some([ filename |-> value,
                              is_symlink |-> MetaIsSymlink(meta),
                              modified |-> IF platform.modified
                                           THEN Some("mtime") ELSE None,
                              created |-> IF platform.created
                                          THEN Some("btime") ELSE None ])]
        ELSE [ok |-> FALSE, err |-> "FileDoesNotExist", path |-> value, meta |-> None]

\* impl TryFrom<&str> for FileMeta
FileMetaTryFrom(fsys, platform, value) ==
    LET meta == StdMetadata(fsys, value)
    IN  IF meta.ok
        THEN IF MetaIsFile(meta)
             THEN [ok |-> TRUE, err |-> "none", path |-> value,
                   meta |-> Some([ filename |-> value,
                                   is_symlink |-> MetaIsSymlink(meta),
                                   modified |-> IF platform.modified
                                                THEN Some("mtime") ELSE None,
                                   created |-> IF platform.created
                                               THEN Some("btime") ELSE None ])]
             ELSE [ok |-> FALSE, err |-> "PathExistsButNotFile", path |-> value,
                   meta |-> None]
        ELSE [ok |-> FALSE, err |-> "FileDoesNotExist", path |-> value, meta |-> None]

\* impl TryFrom<FileMeta> for FileWithMeta (FileMeta::load_content):
\* read_to_string succeeds for a regular file whose bytes are UTF-8.
FileWithMetaTryFrom(fsys, value) ==
    LET n == NodeAt(fsys, value.filename)
    IN  IF n.type = "file" /\ n.utf8
        THEN [ok |-> TRUE, err |-> "none", path |-> value.filename,
              file |-> Some([meta |-> value, content |-> n.content,
                             hash |-> hash(n.content)])]
        ELSE [ok |-> FALSE, err |-> "PathExistsButNotFile", path |-> value.filename,
              file |-> None]

(***************************************************************************)
(* MarkdownDoc assembly  (md/markdown.rs) and md_file  (md/reporting.rs)   *)
(***************************************************************************)
\* impl TryFrom<FileWithMeta> for MarkdownDoc
MarkdownDocTryFrom(value) ==
    With(split_fm_from_prose(value.content), LAMBDA r :
        IF r.status = "ok"
        THEN [status |-> "ok", err |-> "none",
              doc |-> Some([ has_frontmatter |-> has_frontmatter(value.content),
                             fm |-> r.frontmatter,
                             prose |-> r.prose[1],
                             structure |-> None,
                             file |-> Some(value.meta) ])]
        ELSE [status |-> r.status, err |-> r.err, doc |-> None])

\* JSON values placed in the result vector
EmptyObject == [t |-> "object", s |-> <<>>, doc |-> None]
JsonString(x) == [t |-> "string", s |-> x, doc |-> None]
JsonDoc(md) == [t |-> "object", s |-> <<>>, doc |-> Some(md)]
JsonNull == [t |-> "null", s |-> <<>>, doc |-> None]

Ok(v) == [ok |-> TRUE, value |-> v, err |-> "none"]
Err(e) == [ok |-> FALSE, value |-> JsonNull, err |-> e]

\* html_file(target): Ok(json!("{}"))
html_file(target) == Ok(JsonString(<<"{", "}">>))

(***************************************************************************)
(* Dispatcher and main  (main.rs)                                          *)
(***************************************************************************)
Line(stream, event, input) == [stream |-> stream, event |-> event, input |-> input]

\* results.into_iter().filter(is_ok).map(unwrap).collect()
\* (variant that collects in reverse, used to test the ordering property)
OkValuesReversed(rs) ==
    With(SelectSeq(rs, LAMBDA r : r.ok), LAMBDA oks :
        [k \in 1..Len(oks) |-> oks[Len(oks) + 1 - k].value])
OkValues(rs) ==
    With(SelectSeq(rs, LAMBDA r : r.ok), LAMBDA oks :
        [k \in 1..Len(oks) |-> oks[k].value])

\* the target strings of the model and the paths that may exist
A_md == <<"a", ".", "m", "d">>
B_md == <<"b", ".", "m", "d">>
C_md == <<"c", ".", "m", "d">>
P_htm == <<"p", ".", "h", "t", "m">>
I_png == <<"i", ".", "p", "n", "g">>
TargetStrings == {A_md, B_md, C_md, P_htm, I_png}
\* the paths the file system may hold something at; c.md never exists
MdPaths == {A_md, B_md}

\* file contents: plain prose, a one-line frontmatter block, an empty
\* block, a block whose recognized key has the wrong type
PlainText == <<"x">>
FmText == <<"-", "-", "-", "\n", "t", "i", "t", "l", "e", ":", " ", "v", "\n", "-", "-", "-", "\n", "x">>
EmptyFmText == <<"-", "-", "-", "\n", "\n", "-", "-", "-", "\n", "x">>
BadTypeFmText == <<"-", "-", "-", "\n", "t", "i", "t", "l", "e", ":", " ", "[", "v", "]", "\n", "-", "-", "-", "\n", "x">>
FileTexts == {PlainText, FmText, EmptyFmText, BadTypeFmText}

Nodes ==
    {Absent, Directory, BinaryFile, SymlinkToFile(PlainText)}
        \cup { RegularFile(c) : c \in FileTexts }

\* a platform whose stat provides both timestamps, and one that provides none
Platforms == { [modified |-> TRUE, created |-> TRUE],
               [modified |-> FALSE, created |-> FALSE] }

NoCur == [stage |-> "start", meta |-> None, file |-> None]

\* main(), up to the call of process_known_fingerprints: the banner, the
\* echo of the targets, and the classification of every target.
MainFingerprint ==
    /\ pc = "main"
    /\ fingerprints' = [i \in 1..Len(args) |-> fingerprint(args[i])]
    /\ log' = log \o << Line("stderr", "banner", <<>>),
                        Line("stdout", "targets", <<>>) >>
    /\ pc' = "process"
    /\ UNCHANGED <<fs, os, args, results, outcomes, warned, cur, fpVars, fmVars, ioVars>>

\* the closure of process_known_fingerprints on the next target
NextTarget == fingerprints[Len(results) + 1]

ProcessHtml ==
    /\ pc = "process" /\ Len(results) < Len(fingerprints)
    /\ NextTarget.kind = "HtmlFile"
    /\ log' = Append(log, Line("stderr", "html_file", NextTarget.user_input))
    /\ results' = Append(results, html_file(NextTarget))
    /\ UNCHANGED <<fs, os, args, pc, fingerprints, outcomes, warned, cur, fpVars, fmVars, ioVars>>

\* md_file(target), first step: the stderr line and
\* FileMeta::try_from(&target.user_input)?
MdFileStat ==
    /\ pc = "process" /\ Len(results) < Len(fingerprints)
    /\ NextTarget.kind = "MarkdownFile"
    /\ cur.stage = "start"
    /\ log' = Append(log, Line("stderr", "md_file", NextTarget.user_input))
    /\ LET m == FileMetaTryFrom(fs, os, NextTarget.user_input)
       IN  IF m.ok
           THEN cur' = [stage |-> "meta", meta |-> m.meta, file |-> None]
                /\ UNCHANGED results
           ELSE results' = Append(results, Err(m.err)) /\ UNCHANGED cur
    /\ UNCHANGED <<fs, os, args, pc, fingerprints, outcomes, warned, fpVars, fmVars, ioVars>>

\* md_file(target), second step: FileWithMeta::try_from(file)?
MdFileLoad ==
    /\ pc = "process" /\ cur.stage = "meta"
    /\ LET f == FileWithMetaTryFrom(fs, cur.meta[1])
       IN  IF f.ok
           THEN cur' = [stage |-> "file", meta |-> None, file |-> f.file]
                /\ UNCHANGED results
           ELSE results' = Append(results, Err(f.err)) /\ cur' = NoCur
    /\ UNCHANGED <<fs, os, args, pc, fingerprints, outcomes, warned, log, fpVars, fmVars, ioVars>>

\* md_file(target), last step: MarkdownDoc::try_from(file)?, the stdout line
\* and Ok(json!(md)).  A panic inside the conversion unwinds through
\* process_known_fingerprints and main: the process ends.
MdFileAssemble ==
    /\ pc = "process" /\ cur.stage = "file"
    /\ \E d \in {MarkdownDocTryFrom(cur.file[1])} :
           \/ /\ d.status = "ok"
              /\ log' = Append(log, Line("stdout", "markdown", NextTarget.user_input))
              /\ results' = Append(results, Ok(JsonDoc(d.doc[1])))
              /\ UNCHANGED pc
           \/ /\ d.status = "err"
              /\ results' = Append(results, Err(d.err))
              /\ UNCHANGED <<pc, log>>
           \/ /\ d.status = "panic"
              /\ pc' = "panicked"
              /\ UNCHANGED <<results, log>>
    /\ cur' = NoCur
    /\ UNCHANGED <<fs, os, args, fingerprints, outcomes, warned, fpVars, fmVars, ioVars>>

ProcessUnknown ==
    /\ pc = "process" /\ Len(results) < Len(fingerprints)
    /\ NextTarget.kind = "Unknown"
    /\ results' = Append(results, Ok(EmptyObject))
    /\ UNCHANGED <<fs, os, args, pc, fingerprints, outcomes, warned, log, cur, fpVars, fmVars, ioVars>>

\* the tail of process_known_fingerprints: Ok(json!(outcomes))
ProcessReturn ==
    /\ pc = "process" /\ Len(results) = Len(fingerprints)
    /\ outcomes' = Some(OkValues(results))
    /\ pc' = "warn"
    /\ UNCHANGED <<fs, os, args, fingerprints, results, warned, log, cur, fpVars, fmVars, ioVars>>

\* warn_about_unknown_fingerprints, one target of its for_each at a time
WarnUnknown ==
    /\ pc = "warn" /\ warned < Len(fingerprints)
    /\ fingerprints[warned + 1].kind = "Unknown"
    /\ log' = Append(log, Line("stderr", "not_recognized", fingerprints[warned + 1].user_input))
    /\ warned' = warned + 1
    /\ UNCHANGED <<fs, os, args, pc, fingerprints, results, outcomes, cur, fpVars, fmVars, ioVars>>

WarnSkip ==
    /\ pc = "warn" /\ warned < Len(fingerprints)
    /\ fingerprints[warned + 1].kind # "Unknown"
    /\ warned' = warned + 1
    /\ UNCHANGED <<fs, os, args, pc, fingerprints, results, outcomes, log, cur, fpVars, fmVars, ioVars>>

MainExit ==
    /\ pc = "warn" /\ warned = Len(fingerprints)
    /\ pc' = "done"
    /\ UNCHANGED <<fs, os, args, fingerprints, results, outcomes, warned, log, cur, fpVars, fmVars, ioVars>>

NoFmOut == [op |-> "none", has |-> FALSE, text |-> <<>>,
            res |-> [status |-> "none", err |-> "none", frontmatter |-> None,
                     prose |-> None]]

\* the value the variables of main() keep in the specifications of the pure functions
MainIdle ==
    /\ fs = [p \in MdPaths |-> Absent]
    /\ os = [modified |-> TRUE, created |-> TRUE]
    /\ args = <<>>
    /\ pc = "idle"
    /\ fingerprints = <<>>
    /\ results = <<>>
    /\ outcomes = None
    /\ warned = 0
    /\ log = <<>>
    /\ cur = NoCur

\* the value the variables of the file loader keep in the other specifications
IoIdle ==
    /\ ioPath = <<>>
    /\ ioMeta = None
    /\ ioFile = None

Init ==
    /\ fs \in [MdPaths -> Nodes]
    /\ os \in Platforms
    /\ args \in StringsUpTo(TargetStrings, MaxTargets)
    /\ pc = "main"
    /\ fingerprints = <<>>
    /\ results = <<>>
    /\ outcomes = None
    /\ warned = 0
    /\ log = <<>>
    /\ cur = NoCur
    /\ fpInput = <<>>
    /\ fpTarget = None
    /\ raw = <<>>
    /\ fmOut = NoFmOut
    /\ IoIdle

Next ==
    \/ MainFingerprint
    \/ ProcessHtml
    \/ MdFileStat
    \/ MdFileLoad
    \/ MdFileAssemble
    \/ ProcessUnknown
    \/ ProcessReturn
    \/ WarnUnknown
    \/ WarnSkip
    \/ MainExit

Spec == Init /\ [][Next]_vars

(***************************************************************************)
(* SpecFp: fingerprint() applied to every bounded target string            *)
(***************************************************************************)
InitFp ==
    /\ fpInput \in StringsUpTo(FpAlphabet, MaxInputLen)
    /\ fpTarget = None
    /\ raw = <<>>
    /\ fmOut = NoFmOut
    /\ MainIdle
    /\ IoIdle

FpClassify ==
    /\ fpTarget = None
    /\ fpTarget' = Some(fingerprint(fpInput))
    /\ UNCHANGED <<fpInput, fmVars, mainVars, ioVars>>

NextFp == FpClassify

SpecFp == InitFp /\ [][NextFp]_vars

(***************************************************************************)
(* SpecFm: the frontmatter functions applied to bounded raw texts          *)
(***************************************************************************)
\* The lines raw texts are assembled from: the delimiter, a line that only
\* starts with the delimiter, an empty line, a recognized key with a value
\* of the right and of the wrong type, an unrecognized key, a bare scalar
\* and a line that is not valid YAML.
FmLineSet ==
    { <<"-", "-", "-">>,
      <<"-", "-", "-", "x">>,
      <<>>,
      <<"t", "i", "t", "l", "e", ":", " ", "v">>,
      <<"t", "i", "t", "l", "e", ":", " ", "[", "v", "]">>,
      <<"f", "o", "o", ":", " ", "1">>,
      <<"x">>,
      <<"[">> }

JoinLinesOf[ls \in Seq(Seq(STRING))] ==
    IF ls = <<>> THEN <<>>
    ELSE IF Len(ls) = 1 THEN Head(ls)
    ELSE Head(ls) \o <<NL>> \o JoinLinesOf[Tail(ls)]
JoinLines(ls) == JoinLinesOf[ls]

RawTexts ==
    { JoinLines(ls) \o tail :
        ls \in StringsUpTo(FmLineSet, MaxLines), tail \in {<<>>, <<NL>>} }

InitFm ==
    /\ raw \in RawTexts
    /\ fmOut = NoFmOut
    /\ fpInput = <<>>
    /\ fpTarget = None
    /\ MainIdle
    /\ IoIdle

FmHas ==
    /\ fmOut.op = "none"
    /\ fmOut' = [fmOut EXCEPT !.op = "has", !.has = has_frontmatter(raw)]
    /\ UNCHANGED <<raw, fpVars, mainVars, ioVars>>

FmExclude ==
    /\ fmOut.op = "none"
    /\ fmOut' = [fmOut EXCEPT !.op = "exclude", !.text = exclude_frontmatter(raw)]
    /\ UNCHANGED <<raw, fpVars, mainVars, ioVars>>

FmSplit ==
    /\ fmOut.op = "none"
    /\ fmOut' = [fmOut EXCEPT !.op = "split", !.res = split_fm_from_prose(raw)]
    /\ UNCHANGED <<raw, fpVars, mainVars, ioVars>>

NextFm == FmHas \/ FmExclude \/ FmSplit

SpecFm == InitFm /\ [][NextFm]_vars

(***************************************************************************)
(* SpecIo: FileMeta::try_from and load_content applied to one path         *)
(***************************************************************************)
\* a symbolic link whose target is missing, and one that leads to a
\* directory: stat reports what the link resolves to
DanglingSymlink == [link |-> TRUE, type |-> "none", utf8 |-> FALSE, content |-> <<>>]
SymlinkToDirectory == [link |-> TRUE, type |-> "dir", utf8 |-> FALSE, content |-> <<>>]

IoNodes == Nodes \cup {DanglingSymlink, SymlinkToDirectory}

\* the paths handed to FileMeta::try_from: two that may exist, one that never does
IoPaths == MdPaths \cup {C_md}

InitIo ==
    /\ fs \in [MdPaths -> IoNodes]
    /\ os \in Platforms
    /\ ioPath \in IoPaths
    /\ ioMeta = None
    /\ ioFile = None
    /\ args = <<>>
    /\ pc = "idle"
    /\ fingerprints = <<>>
    /\ results = <<>>
    /\ outcomes = None
    /\ warned = 0
    /\ log = <<>>
    /\ cur = NoCur
    /\ fpInput = <<>>
    /\ fpTarget = None
    /\ raw = <<>>
    /\ fmOut = NoFmOut

\* FileMeta::try_from(path)
IoStat ==
    /\ ioMeta = None
    /\ ioMeta' = Some(FileMetaTryFrom(fs, os, ioPath))
    /\ UNCHANGED <<ioPath, ioFile, fpVars, fmVars, mainVars>>

\* between the stat and the read another process replaces what is at a path
IoTouch ==
    /\ ioMeta # None /\ ioMeta[1].ok /\ ioFile = None
    /\ \E p \in MdPaths, n \in IoNodes :
           /\ n # fs[p]
           /\ fs' = [fs EXCEPT ![p] = n]
    /\ UNCHANGED <<os, args, pc, fingerprints, results, outcomes, warned, log, cur,
                   ioVars, fpVars, fmVars>>

\* meta.load_content() on the FileMeta the stat returned
IoLoad ==
    /\ ioMeta # None /\ ioMeta[1].ok /\ ioFile = None
    /\ ioFile' = Some(FileWithMetaTryFrom(fs, ioMeta[1].meta[1]))
    /\ UNCHANGED <<ioPath, ioMeta, fpVars, fmVars, mainVars>>

NextIo == IoStat \/ IoTouch \/ IoLoad

SpecIo == InitIo /\ [][NextIo]_vars

(***************************************************************************)
(* Properties of the dispatcher (checked under Spec)                       *)
(***************************************************************************)
IsHandled(i) == fingerprints[i].kind \in {"MarkdownFile", "HtmlFile"}
HandlerSucceeded(i) == i <= Len(results) /\ IsHandled(i) /\ results[i].ok
HandlerFailed(i) == i <= Len(results) /\ IsHandled(i) /\ ~results[i].ok

\* C1: a target whose handling fails (at statPath, at loadContent or at
\* frontmatter decoding) never aborts the batch: the run never ends inside
\* process(), before the remaining targets are handled and the aggregate
\* is returned.
C1_FailureNeverAbortsBatch ==
    pc # "panicked"

\* the k-th smallest element of the set of indices S
KthOf(S, k) == CHOOSE i \in S : Cardinality({ j \in S : j <= i }) = k

\* C2: once process() has returned, its sequence holds exactly one entry
\* for each target whose handler succeeded, none for a target whose handler
\* failed, and the entries are in the order of their targets: the entries
\* are the handler values at an increasing selection S of target positions
\* that contains every succeeded and no failed target.
C2_AggregateIsOrderedSuccesses ==
    outcomes # None =>
        \E S \in SUBSET (1..Len(results)) :
            /\ Cardinality(S) = Len(outcomes[1])
            /\ \A k \in 1..Len(outcomes[1]) :
                  outcomes[1][k] = results[KthOf(S, k)].value
            /\ \A i \in 1..Len(results) :
                  /\ HandlerSucceeded(i) => i \in S
                  /\ HandlerFailed(i) => i \notin S

\* C2 witness: two valid markdown files around one nonexistent path; the
\* run ended and process() returned the two documents, in their order.
C2_Witness ==
    /\ pc = "done"
    /\ args = <<A_md, C_md, B_md>>
    /\ HandlerSucceeded(1) /\ HandlerFailed(2) /\ HandlerSucceeded(3)
    /\ results[2].err = "FileDoesNotExist"
    /\ Len(outcomes[1]) = 2
    /\ outcomes[1][1].doc[1].file[1].filename = A_md
    /\ outcomes[1][2].doc[1].file[1].filename = B_md

\* C3: an Unknown target contributes no element to the aggregate: once
\* process() has returned, the aggregate has as many entries as there are
\* Markdown/Html targets whose handler succeeded.
C3_UnknownContributesNothing ==
    outcomes # None =>
        Len(outcomes[1]) = Cardinality({ i \in 1..Len(results) : HandlerSucceeded(i) })

\* C4: no handler (md_file / html_file) runs before the warning of every
\* Unknown target of the batch has been written.
C4_WarnedBeforeHandling ==
    (\E k \in 1..Len(log) : log[k].event \in {"md_file", "html_file"}) =>
        \A i \in 1..Len(fingerprints) :
            fingerprints[i].kind = "Unknown" =>
                \E j \in 1..Len(log) :
                    log[j] = Line("stderr", "not_recognized", fingerprints[i].user_input)

\* C10: statPath flags symlinks: the FileMeta it returns has is_symlink
\* equal to whether the path is a symbolic link, and a symbolic link to a
\* regular file is not refused.
C10_SymlinkFlagged ==
    /\ cur.stage = "meta" =>
          cur.meta[1].is_symlink = NodeAt(fs, cur.meta[1].filename).link
    /\ \A i \in 1..Len(results) :
          (fingerprints[i].kind = "MarkdownFile"
             /\ NodeAt(fs, fingerprints[i].user_input) = SymlinkToFile(PlainText))
          => results[i].ok /\ results[i].value.doc[1].file[1].is_symlink

(***************************************************************************)
(* Properties of fingerprint() (checked under SpecFp)                      *)
(***************************************************************************)
DotMd == <<".", "m", "d">>
DotHtm == <<".", "h", "t", "m">>
DotHtml == <<".", "h", "t", "m", "l">>

\* s ends with suffix and the character before the suffix is a word character
WordThenSuffix(s, suffix) ==
    /\ EndsWith(s, suffix)
    /\ Len(s) > Len(suffix)
    /\ IsWord(s[Len(s) - Len(suffix)])

\* C5 (as stated): the kind is Markdown if the input ends with .md, Html if
\* it ends with .htm or .html, Unknown otherwise.
C5_ClassifyBySuffix ==
    fpTarget # None =>
        /\ fpTarget[1].user_input = fpInput
        /\ fpTarget[1].kind =
              IF EndsWith(fpInput, DotMd) THEN "MarkdownFile"
              ELSE IF EndsWith(fpInput, DotHtm) \/ EndsWith(fpInput, DotHtml)
              THEN "HtmlFile"
              ELSE "Unknown"

\* C5 (amended): the kind is Markdown if the input ends with a word
\* character followed by .md, Html if it ends with a word character
\* followed by .htm or .html, Unknown otherwise.
C5_ClassifyByWordAndSuffix ==
    fpTarget # None =>
        /\ fpTarget[1].user_input = fpInput
        /\ fpTarget[1].kind =
              IF WordThenSuffix(fpInput, DotMd) THEN "MarkdownFile"
              ELSE IF WordThenSuffix(fpInput, DotHtm) \/ WordThenSuffix(fpInput, DotHtml)
              THEN "HtmlFile"
              ELSE "Unknown"

\* C5 witness: a classified input that ends with .md with no word character
\* before it, and so is Unknown.
C5_Witness ==
    /\ fpTarget # None
    /\ EndsWith(fpInput, DotMd)
    /\ ~WordThenSuffix(fpInput, DotMd)
    /\ fpTarget[1].kind = "Unknown"

(***************************************************************************)
(* Properties of the frontmatter functions (checked under SpecFm)          *)
(***************************************************************************)
\* raw begins with a delimiter line, then a body of one or more lines, then
\* a closing delimiter line
DelimitedBlock(text) ==
    With(Lines(text), LAMBDA ls :
        /\ Len(ls) >= 3
        /\ ls[1] = Dashes
        /\ \E k \in 3..Len(ls) : ls[k] = Dashes)

\* C6: has_frontmatter(raw) is true exactly when raw begins with a
\* delimiter line, any body (also of several lines) and a closing delimiter
\* line; and split on such a document returns a present Frontmatter.
C6_DetectsAnyBody ==
    /\ fmOut.op = "has" => (fmOut.has <=> DelimitedBlock(raw))
    /\ (fmOut.op = "split" /\ DelimitedBlock(raw) /\ fmOut.res.status = "ok")
          => IsSome(fmOut.res.frontmatter)

\* the text strictly after the closing delimiter matched by HAS_FM
AfterClosingDelimiter(text) ==
    With(FirstNewlineFrom(text, 5), LAMBDA j : SubSeq(text, j + 4, Len(text)))

\* C7: exclude_frontmatter(raw) equals raw exactly when has_frontmatter(raw)
\* is false; otherwise it is the text strictly after the closing delimiter.
C7_ExcludeRemovesBlock ==
    fmOut.op = "exclude" =>
        /\ (fmOut.text = raw) <=> ~has_frontmatter(raw)
        /\ has_frontmatter(raw) => fmOut.text = AfterClosingDelimiter(raw)

\* C8: the output of exclude_frontmatter contains no frontmatter.
C8_ExcludedHasNoFrontmatter ==
    fmOut.op = "exclude" => ~has_frontmatter(fmOut.text)

\* the delimited block of a text with frontmatter (its second line) is
\* empty, is not a key/value mapping, or gives a recognized key a value of
\* the wrong type
BlockIsBad(text) ==
    With(Lines(text)[2], LAMBDA body :
        \/ Trim(body) = <<>>
        \/ EntryColon(body) = 0
        \/ /\ EntryKey(body) \in RecognizedKeys
           /\ ~FieldTypeOk(KeyName[EntryKey(body)], EntryValue(body)))

\* C9: when has_frontmatter(raw) holds and the block is empty, not valid
\* structured data or wrongly typed, split(raw) returns the
\* FrontmatterDecodeError value: it neither panics nor returns a Frontmatter.
C9_BadBlockIsDecodeError ==
    (fmOut.op = "split" /\ has_frontmatter(raw) /\ BlockIsBad(raw)) =>
        /\ fmOut.res.status = "err"
        /\ fmOut.res.err = "FrontmatterDecodeError"

(***************************************************************************)
(* Properties of the file loader (checked under SpecIo)                    *)
(***************************************************************************)
\* what the claim requires of FileMeta::try_from(path) when node is what the
\* path names
StatAsSpecified(path, node, res) ==
    IF node.type = "none"
    THEN ~res.ok /\ res.err = "FileDoesNotExist" /\ res.path = path
    ELSE IF node.type # "file"
    THEN ~res.ok /\ res.err = "PathExistsButNotFile" /\ res.path = path
    ELSE res.ok /\ res.meta # None /\ res.meta[1].filename = path

\* what the claim requires of load_content(meta) when node is what the
\* file name of meta names at the time of the read
LoadAsSpecified(meta, node, res) ==
    /\ res.ok <=> (node.type = "file" /\ node.utf8)
    /\ res.ok => res.file # None /\ res.file[1].meta = meta
    /\ ~res.ok => res.err = "PathExistsButNotFile" /\ res.path = meta.filename

\* C11: FileMeta::try_from(path) fails with FileDoesNotExist(path) when the
\* path cannot be stat'ed, with PathExistsButNotFile(path) when it resolves
\* to something that is not a regular file, and succeeds otherwise;
\* load_content on the FileMeta fails exactly when the file cannot be read
\* as UTF-8 text, and then only with PathExistsButNotFile.
C11_IoErrorKinds ==
    [][ /\ IoStat => StatAsSpecified(ioPath, NodeAt(fs, ioPath), ioMeta'[1])
        /\ IoLoad => LoadAsSpecified(ioMeta[1].meta[1],
                                     NodeAt(fs, ioMeta[1].meta[1].filename),
                                     ioFile'[1]) ]_vars

\* C11 witness: the stat of a path succeeded, the file was then removed, and
\* load_content failed with PathExistsButNotFile for that path.
C11_Witness ==
    /\ ioMeta # None /\ ioMeta[1].ok
    /\ ioFile # None /\ ~ioFile[1].ok
    /\ ioFile[1].err = "PathExistsButNotFile" /\ ioFile[1].path = ioPath
    /\ NodeAt(fs, ioPath) = Absent

====
